---- MODULE Spec2Model ----
(***************************************************************************)
(* Model of the loxide scanner (src/src/scanner.rs) and of the error       *)
(* values it yields (src/src/error.rs).                                    *)
(*                                                                         *)
(* A source is a sequence of Unicode scalars, each written as a one-       *)
(* character string.  UTF-8 is modelled by the encoded width of every      *)
(* scalar, so that byte offsets (what str::char_indices and str::get work  *)
(* on) and character indices (what spans are counted in) are different     *)
(* quantities as soon as a non-ASCII scalar occurs.                        *)
(***************************************************************************)
EXTENDS Integers, Sequences, FiniteSets, TLC

\* source and location are the fields of the Scanner; cursor and cursor2
\* are the cursors of two calls of scan(), pulls and pulls2 the records of
\* the calls of next() made on each.
VARIABLES source, location, cursor, pulls, cursor2, pulls2

vars == <<source, location, cursor, pulls, cursor2, pulls2>>

(***************************************************************************)
(* Bounds of the model.                                                    *)
(***************************************************************************)
\* Sources of every length up to MaxLen over Alphabet are scanned.
MaxLen == 3
\* Number of further pulls made on a cursor that is already terminated.
MaxDonePulls == 2
\* Sources of every length up to MaxLenTwo are scanned by two cursors.
MaxLenTwo == 2

(***************************************************************************)
(* Characters.                                                             *)
(***************************************************************************)
NL == "\n"
QUOTE == "\""
EACUTE == "é"
EURO == "€"

Digits == {"0", "1", "2", "3", "4", "5", "6", "7", "8", "9"}

Lower ==
  {"a", "b", "c", "d", "e", "f", "g", "h", "i", "j", "k", "l", "m",
   "n", "o", "p", "q", "r", "s", "t", "u", "v", "w", "x", "y", "z"}

Upper ==
  {"A", "B", "C", "D", "E", "F", "G", "H", "I", "J", "K", "L", "M",
   "N", "O", "P", "Q", "R", "S", "T", "U", "V", "W", "X", "Y", "Z"}

Letters == Lower \cup Upper

Blank == {" ", "\r", "\t"}

\* The one-character tokens of next_token and their kinds.
Punct ==
  [c \in {"(", ")", "{", "}", ",", ".", "-", "+", ";", "*"} |->
     CASE c = "(" -> "LeftParen"
       [] c = ")" -> "RightParen"
       [] c = "{" -> "LeftBrace"
       [] c = "}" -> "RightBrace"
       [] c = "," -> "Comma"
       [] c = "." -> "Dot"
       [] c = "-" -> "Minus"
       [] c = "+" -> "Plus"
       [] c = ";" -> "Semicolon"
       [] c = "*" -> "Star"]

\* The operators that may be followed by '=': <<kind with '=', kind without>>.
TwoChar ==
  [c \in {"!", "=", "<", ">"} |->
     CASE c = "!" -> <<"BangEqual", "Bang">>
       [] c = "=" -> <<"EqualEqual", "Equal">>
       [] c = "<" -> <<"LessEqual", "Less">>
       [] c = ">" -> <<"GreaterEqual", "Greater">>]

\* The characters the bounded sources are built from: one or two of every
\* class next_token distinguishes, and two non-ASCII scalars.
Alphabet == {"+", "/", "=", " ", NL, QUOTE, "1", ".", "a", "@", EACUTE}

(***************************************************************************)
(* UTF-8: widths, byte offsets and slicing.                                *)
(***************************************************************************)
\* Encoded length in bytes of one scalar (char::len_utf8).
Utf8Len(ch) ==
  CASE ch = EACUTE -> 2
    [] ch = EURO -> 3
    [] OTHER -> 1

RECURSIVE ByteLen(_)
\* Length in bytes of a text (str::len).
ByteLen(text) ==
  IF text = <<>> THEN 0
  ELSE Utf8Len(Head(text)) + ByteLen(Tail(text))

\* Byte offset at which the scalar of character index i (0-based) starts;
\* for i = Len(text) the byte length of the text.
ByteIdx(text, i) == ByteLen(SubSeq(text, 1, i))

\* The byte offsets that lie on a character boundary (str::is_char_boundary).
CharBoundaries(text) == {ByteIdx(text, i) : i \in 0..Len(text)}

\* The character index whose scalar starts at byte offset b.
CharAtByte(text, b) == CHOOSE k \in 0..Len(text) : ByteIdx(text, k) = b

\* str::get(lo..hi) with hi exclusive: the text of bytes lo..hi-1, or
\* nothing when the range is out of bounds or an end is not on a character
\* boundary.
StrGet(text, lo, hi) ==
  IF lo <= hi /\ lo \in CharBoundaries(text) /\ hi \in CharBoundaries(text)
  THEN [ok |-> TRUE,
        text |-> SubSeq(text, CharAtByte(text, lo) + 1, CharAtByte(text, hi))]
  ELSE [ok |-> FALSE, text |-> <<>>]

\* Slicing that takes the end of an inclusive range as an exclusive end.
StrGetExclusive(text, lo, hi) == StrGet(text, lo, hi)

\* str::get(lo..=hi): the inclusive range lo..=hi is the range lo..hi+1.
StrGetInclusive(text, lo, hi) == StrGet(text, lo, hi + 1)

(***************************************************************************)
(* Tokens and errors.  Every yielded item is a record of one shape; a      *)
(* field an item does not have holds <<>> (text, num, span) or NA.         *)
(***************************************************************************)
\* Option::<char>::None
None == "None"
\* The value of a numeric field that an item does not have.
NA == 0 - 1

\* Token { kind, span }, with the payload of String / Identifier in text
\* and the payload of Number in num.
Token(kind, text, num, start, end) ==
  [tag |-> "token", kind |-> kind, text |-> text, num |-> num,
   span |-> <<start, end>>, line |-> NA, column |-> NA, start |-> NA,
   location |-> <<>>]

\* LoxError::new: { kind, line, column, location: None }; start is the
\* anchor of UnterminatedString / InvalidNumber, text the character or
\* lexeme carried.  An Option<String> is <<>> or a one-element sequence.
LoxError(kind, text, start, line, column) ==
  [tag |-> "error", kind |-> kind, text |-> text, num |-> <<>>,
   span |-> <<>>, line |-> line, column |-> column, start |-> start,
   location |-> <<>>]

\* A span that is the point at column for every kind.
SpanPointOnly(err) == <<err.column, err.column>>

\* LoxError::span, as <<start, end>> of the inclusive range.
Span(err) ==
  IF err.kind \in {"InvalidNumber", "UnterminatedString"}
  THEN <<err.start, err.column>>
  ELSE <<err.column, err.column>>

\* handle_errors: the number of '~' under the source line, computed in
\* usize; a negative number stands for the underflow of the subtraction.
UnderlineLength(err) == Span(err)[2] - Span(err)[1] + 1

\* The decimal digits, by value.
DigitChar == <<"0", "1", "2", "3", "4", "5", "6", "7", "8", "9">>

RECURSIVE Decimal(_)
\* The text of a usize under "{}".
Decimal(n) ==
  IF n < 10 THEN DigitChar[n + 1]
  ELSE Decimal(n \div 10) \o DigitChar[(n % 10) + 1]

RECURSIVE Concat(_)
\* The text made of the characters of a sequence of characters.
Concat(text) ==
  IF text = <<>> THEN "" ELSE text[1] \o Concat(Tail(text))

\* Display for LoxErrorKind
KindMessage(err) ==
  CASE err.kind = "UnexpectedCharacter" ->
         "Unexpected character '" \o Concat(err.text) \o "'"
    [] err.kind = "UnterminatedString" -> "Unterminated string"
    [] err.kind = "InvalidNumber" ->
         "Invalid number: '" \o Concat(err.text) \o "'"
    [] err.kind = "UnexpectedEof" -> "Unexpected end of file"
    [] err.kind = "InvalidInput" -> "Invalid input, damn"

\* A diagnostic text with nothing but colons between location, line and
\* column.
DisplayColons(err) ==
  IF err.location # <<>>
  THEN "[" \o err.location[1] \o ":" \o Decimal(err.line) \o ":"
           \o Decimal(err.column) \o "] " \o KindMessage(err)
  ELSE "[" \o Decimal(err.line) \o ":" \o Decimal(err.column) \o "] "
           \o KindMessage(err)

\* Display for LoxError
Display(err) ==
  IF err.location # <<>>
  THEN "[" \o err.location[1] \o " at " \o Decimal(err.line) \o ":"
           \o Decimal(err.column) \o "] " \o KindMessage(err)
  ELSE "[" \o Decimal(err.line) \o ":" \o Decimal(err.column) \o "] "
           \o KindMessage(err)

\* LoxError::with_location
WithLocation(err, loc) == [err EXCEPT !.location = loc]

\* LoxError::with_path: the path is turned into its text.
WithPath(err, loc) == WithLocation(err, loc)

\* Option::None of Iterator::next.
EndOfSequence ==
  [tag |-> "none", kind |-> "None", text |-> <<>>, num |-> <<>>,
   span |-> <<>>, line |-> NA, column |-> NA, start |-> NA,
   location |-> <<>>]

(***************************************************************************)
(* Number parsing (str::parse::<f64> and str::parse::<u64>).  A parsed     *)
(* number is the pair <<m, e>> standing for m / 10^e with no trailing zero *)
(* in the fraction, so that equal numbers are equal pairs.                 *)
(***************************************************************************)
DigitValue ==
  [c \in Digits |->
     CASE c = "0" -> 0 [] c = "1" -> 1 [] c = "2" -> 2 [] c = "3" -> 3
       [] c = "4" -> 4 [] c = "5" -> 5 [] c = "6" -> 6 [] c = "7" -> 7
       [] c = "8" -> 8 [] c = "9" -> 9]

RECURSIVE DecimalValue(_)
\* The integer a run of decimal digits denotes.
DecimalValue(text) ==
  IF text = <<>> THEN 0
  ELSE 10 * DecimalValue(SubSeq(text, 1, Len(text) - 1))
       + DigitValue[text[Len(text)]]

RECURSIVE StripZeros(_)
\* A fraction without its trailing zeros.
StripZeros(text) ==
  IF text # <<>> /\ text[Len(text)] = "0"
  THEN StripZeros(SubSeq(text, 1, Len(text) - 1))
  ELSE text

\* parse::<f64> on a text of digits and dots: digits with at most one '.'
\* and at least one digit are a float; nothing else number() can slice is.
ParseF64(text) ==
  LET dots == {i \in 1..Len(text) : text[i] = "."}
      wellFormed == /\ \A i \in 1..Len(text) : text[i] \in Digits \cup {"."}
                    /\ Cardinality(dots) <= 1
                    /\ Cardinality(dots) < Len(text)
  IN IF ~wellFormed THEN [ok |-> FALSE, num |-> <<>>]
     ELSE LET d == IF dots = {} THEN Len(text) + 1 ELSE CHOOSE i \in dots : TRUE
              whole == SubSeq(text, 1, d - 1)
              frac == StripZeros(SubSeq(text, d + 1, Len(text)))
          IN [ok |-> TRUE,
              num |-> <<DecimalValue(whole \o frac), Len(frac)>>]

\* parse::<u64> widened to f64: a non-empty run of digits below 2^64.
ParseU64(text) ==
  IF /\ text # <<>>
     /\ \A i \in 1..Len(text) : text[i] \in Digits
     /\ Len(text) <= 19
  THEN [ok |-> TRUE, num |-> <<DecimalValue(text), 0>>]
  ELSE [ok |-> FALSE, num |-> <<>>]

(***************************************************************************)
(* The scan cursor (struct ScannerIter).  iter is the position of the      *)
(* CharIndices iterator: the number of scalars it has handed out.          *)
(***************************************************************************)
\* ScannerIter::new
NewCursor ==
  [iter |-> 0, current_line |-> 0, current_char |-> 0, current_byte |-> 0,
   is_terminated |-> FALSE]

\* usize::saturating_sub(1)
SaturatingDec(n) == IF n = 0 THEN 0 ELSE n - 1

\* Error with the column one past the character last consumed.
ErrorColumnNotDecremented(c, kind, text, start) ==
  WithPath(LoxError(kind, text, start, c.current_line, c.current_char),
           location)

\* ScannerIter::error: the error value built at the cursor's position.
Error(c, kind, text, start) ==
  WithPath(LoxError(kind, text, start, c.current_line,
                    SaturatingDec(c.current_char)),
           location)

\* The result of a step that failed with error err, leaving cursor c.
Failed(c, err) == [ok |-> FALSE, cur |-> c, err |-> err]

\* The result of a step that succeeded, leaving cursor c.
Done(c) == [ok |-> TRUE, cur |-> c, err |-> EndOfSequence]

\* source_slice: Some(text) is Ok(text), None is Err(InvalidInput).
SourceSliceResult(c, got) ==
  IF got.ok THEN [ok |-> TRUE, text |-> got.text, err |-> EndOfSequence]
  ELSE [ok |-> FALSE, text |-> <<>>,
        err |-> Error(c, "InvalidInput", <<>>, NA)]

\* ScannerIter::source_slice
SourceSlice(c, lo, hi) == SourceSliceResult(c, StrGetInclusive(source, lo, hi))

\* advance() that counts the bytes of the scalar instead of the scalar.
AdvanceCountsBytes(c) ==
  IF c.iter < Len(source)
  THEN [ok |-> TRUE, ch |-> source[c.iter + 1], err |-> EndOfSequence,
        cur |-> [c EXCEPT !.iter = @ + 1,
                          !.current_char = @ + Utf8Len(source[c.iter + 1]),
                          !.current_byte = ByteIdx(source, c.iter)]]
  ELSE [ok |-> FALSE, ch |-> None, cur |-> c,
        err |-> Error(c, "UnexpectedEof", <<>>, NA)]

\* advance() that keeps the byte offset after the scalar, not at it.
AdvanceKeepsEndByte(c) ==
  IF c.iter < Len(source)
  THEN [ok |-> TRUE, ch |-> source[c.iter + 1], err |-> EndOfSequence,
        cur |-> [c EXCEPT !.iter = @ + 1,
                          !.current_char = @ + 1,
                          !.current_byte = ByteIdx(source, c.iter + 1)]]
  ELSE [ok |-> FALSE, ch |-> None, cur |-> c,
        err |-> Error(c, "UnexpectedEof", <<>>, NA)]

\* ScannerIter::advance
Advance(c) ==
  IF c.iter < Len(source)
  THEN [ok |-> TRUE, ch |-> source[c.iter + 1], err |-> EndOfSequence,
        cur |-> [c EXCEPT !.iter = @ + 1,
                          !.current_char = @ + 1,
                          !.current_byte = ByteIdx(source, c.iter)]]
  ELSE [ok |-> FALSE, ch |-> None, cur |-> c,
        err |-> Error(c, "UnexpectedEof", <<>>, NA)]

\* ScannerIter::peek_nth: the n-th scalar ahead, None past the end.
PeekNth(c, n) ==
  IF c.iter + n < Len(source) THEN source[c.iter + n + 1] ELSE None

\* ScannerIter::peek
Peek(c) == PeekNth(c, 0)

\* ScannerIter::is_end
IsEnd(c) == c.iter >= Len(source)

\* A find() that consumes the character it looked at, match or not.
FindAlwaysAdvances(c, expected) ==
  IF Peek(c) # None
  THEN [found |-> Peek(c) = expected, cur |-> Advance(c).cur]
  ELSE [found |-> FALSE, cur |-> c]

\* ScannerIter::find
Find(c, expected) ==
  IF Peek(c) # None /\ Peek(c) = expected
  THEN [found |-> TRUE, cur |-> Advance(c).cur]
  ELSE [found |-> FALSE, cur |-> c]

RECURSIVE ConsumeUntil(_, _)
\* consume_until() that does not count the newlines it passes.
ConsumeUntilAdvancedKeepsLine(a, expected) ==
  IF ~a.ok THEN [ok |-> FALSE, found |-> FALSE, cur |-> a.cur, err |-> a.err]
  ELSE ConsumeUntil(a.cur, expected)

\* consume_until: the match on self.advance() in the loop body.
ConsumeUntilAdvanced(a, expected) ==
  IF ~a.ok THEN [ok |-> FALSE, found |-> FALSE, cur |-> a.cur, err |-> a.err]
  ELSE IF a.ch = NL
  THEN ConsumeUntil([a.cur EXCEPT !.current_line = @ + 1], expected)
  ELSE ConsumeUntil(a.cur, expected)

\* ScannerIter::consume_until
ConsumeUntil(c, expected) ==
  IF Peek(c) = None
  THEN [ok |-> TRUE, found |-> FALSE, cur |-> c, err |-> EndOfSequence]
  ELSE IF Peek(c) = expected
  THEN [ok |-> TRUE, found |-> TRUE, cur |-> c, err |-> EndOfSequence]
  ELSE ConsumeUntilAdvanced(Advance(c), expected)

RECURSIVE ConsumeWhile(_, _)
\* The `self.advance()?` of a `while matches!(self.peek(), ...)` loop.
ConsumeWhileAdvanced(a, class) ==
  IF a.ok THEN ConsumeWhile(a.cur, class) ELSE Failed(a.cur, a.err)

\* The loops `while matches!(self.peek(), ...) { self.advance()?; }`.
ConsumeWhile(c, class) ==
  IF Peek(c) \in class THEN ConsumeWhileAdvanced(Advance(c), class)
  ELSE Done(c)

(***************************************************************************)
(* The sub-scanners.  Each returns the item it produces and the cursor it  *)
(* leaves behind: the cursor keeps whatever was consumed before an error.  *)
(* A function of the source is written as a chain of operators, one per    *)
(* statement, each taking the results of the statements before it.         *)
(***************************************************************************)
\* An Err(..) return.
Raise(c, err) == [item |-> err, cur |-> c]

\* An Ok(Token { kind, span: start..=(self.current_char - 1) }) return.
Emit(c, kind, text, num, start) ==
  [item |-> Token(kind, text, num, start, c.current_char - 1), cur |-> c]

\* string: the slice and the token built from it.
StringToken(c, start, s) ==
  IF ~s.ok THEN Raise(c, s.err)
  ELSE Emit(c, "String", s.text, <<>>, start)

\* string: the closing quote is consumed, then the body is sliced.
StringClosed(start, start_byte, end_byte, closing) ==
  IF ~closing.ok THEN Raise(closing.cur, closing.err)
  ELSE StringToken(closing.cur, start,
                   SourceSlice(closing.cur, start_byte, end_byte))

\* string: after consume_until('"').
StringBody(start, start_byte, until) ==
  IF ~until.ok THEN Raise(until.cur, until.err)
  ELSE IF ~until.found
  THEN Raise(until.cur, Error(until.cur, "UnterminatedString", <<>>, start))
  ELSE StringClosed(start, start_byte, until.cur.current_byte,
                    Advance(until.cur))

\* ScannerIter::string, entered after the opening quote was consumed.
String(c, start) ==
  StringBody(start, c.current_byte + 1, ConsumeUntil(c, QUOTE))

\* number: the value of the lexeme, by parse::<f64> or else parse::<u64>.
NumberValue(c, start, text, f, u) ==
  IF f.ok THEN Emit(c, "Number", <<>>, f.num, start)
  ELSE IF u.ok THEN Emit(c, "Number", <<>>, u.num, start)
  ELSE Raise(c, Error(c, "InvalidNumber", text, start))

\* number: the lexeme is parsed.
NumberParse(c, start, lexeme) ==
  IF ~lexeme.ok THEN Raise(c, lexeme.err)
  ELSE NumberValue(c, start, lexeme.text,
                   ParseF64(lexeme.text), ParseU64(lexeme.text))

\* number: the lexeme is sliced, from the first digit to the last.
NumberLexeme(c, start, start_byte) ==
  NumberParse(c, start, SourceSlice(c, start_byte, c.current_byte))

\* number: after the digits of the fraction.
NumberFractionDigits(start, start_byte, fraction) ==
  IF ~fraction.ok THEN Raise(fraction.cur, fraction.err)
  ELSE NumberLexeme(fraction.cur, start, start_byte)

\* number: the '.' was consumed, the digits after it follow.
NumberDot(start, start_byte, dot) ==
  IF ~dot.ok THEN Raise(dot.cur, dot.err)
  ELSE NumberFractionDigits(start, start_byte, ConsumeWhile(dot.cur, Digits))

\* A fraction entered on a '.' alone, whatever follows it.
NumberFractionUnguarded(start, start_byte, whole) ==
  IF ~whole.ok THEN Raise(whole.cur, whole.err)
  ELSE IF Peek(whole.cur) = "."
  THEN NumberDot(start, start_byte, Advance(whole.cur))
  ELSE NumberLexeme(whole.cur, start, start_byte)

\* number: after the first run of digits, the match on (peek, peek_nth(1)).
NumberFraction(start, start_byte, whole) ==
  IF ~whole.ok THEN Raise(whole.cur, whole.err)
  ELSE IF Peek(whole.cur) = "." /\ PeekNth(whole.cur, 1) \in Digits
  THEN NumberDot(start, start_byte, Advance(whole.cur))
  ELSE NumberLexeme(whole.cur, start, start_byte)

\* ScannerIter::number, entered after the first digit was consumed.
Number(c, start) ==
  NumberFraction(start, c.current_byte, ConsumeWhile(c, Digits))

\* The keyword table of ScannerIter::ident.
Keywords ==
  {<<<<"a", "n", "d">>, "And">>,
   <<<<"c", "l", "a", "s", "s">>, "Class">>,
   <<<<"e", "l", "s", "e">>, "Else">>,
   <<<<"f", "a", "l", "s", "e">>, "False">>,
   <<<<"f", "u", "n">>, "Fun">>,
   <<<<"f", "o", "r">>, "For">>,
   <<<<"i", "f">>, "If">>,
   <<<<"n", "i", "l">>, "Nil">>,
   <<<<"o", "r">>, "Or">>,
   <<<<"p", "r", "i", "n", "t">>, "Print">>,
   <<<<"r", "e", "t", "u", "r", "n">>, "Return">>,
   <<<<"s", "u", "p", "e", "r">>, "Super">>,
   <<<<"t", "h", "i", "s">>, "This">>,
   <<<<"t", "r", "u", "e">>, "True">>,
   <<<<"v", "a", "r">>, "Var">>,
   <<<<"w", "h", "i", "l", "e">>, "While">>}

\* A match that takes a lexeme for a keyword when it begins with one.
IdentKindByPrefix(c, start, lexeme) ==
  IF ~lexeme.ok THEN Raise(c, lexeme.err)
  ELSE IF \E k \in Keywords :
            /\ Len(k[1]) <= Len(lexeme.text)
            /\ SubSeq(lexeme.text, 1, Len(k[1])) = k[1]
  THEN Emit(c, (CHOOSE k \in Keywords :
                  /\ Len(k[1]) <= Len(lexeme.text)
                  /\ SubSeq(lexeme.text, 1, Len(k[1])) = k[1])[2],
            <<>>, <<>>, start)
  ELSE Emit(c, "Identifier", lexeme.text, <<>>, start)

\* ident: the match of the lexeme against the keyword table.
IdentKind(c, start, lexeme) ==
  IF ~lexeme.ok THEN Raise(c, lexeme.err)
  ELSE IF \E k \in Keywords : k[1] = lexeme.text
  THEN Emit(c, (CHOOSE k \in Keywords : k[1] = lexeme.text)[2], <<>>, <<>>,
            start)
  ELSE Emit(c, "Identifier", lexeme.text, <<>>, start)

\* ident: after the run of letters and digits, the lexeme is sliced.
IdentLexeme(start, start_byte, run) ==
  IF ~run.ok THEN Raise(run.cur, run.err)
  ELSE IdentKind(run.cur, start,
                 SourceSlice(run.cur, start_byte, run.cur.current_byte))

\* ScannerIter::ident, entered after the first letter was consumed.
Ident(c, start) ==
  IdentLexeme(start, c.current_byte, ConsumeWhile(c, Digits \cup Letters))

\* Operator tokens whose span ends one past the last character consumed.
OperatorSpanEndNotDecremented(ch, lexeme_start, f) ==
  [item |-> Token(IF f.found THEN TwoChar[ch][1] ELSE TwoChar[ch][2],
                  <<>>, <<>>, lexeme_start, f.cur.current_char),
   cur |-> f.cur]

\* The arms of next_token's match for operators that may take a second
\* '=': f is the result of self.find('=').
Operator(ch, lexeme_start, f) ==
  Emit(f.cur, IF f.found THEN TwoChar[ch][1] ELSE TwoChar[ch][2], <<>>, <<>>,
       lexeme_start)

\* A '\n' arm that leaves the line counter alone.
NewLineNotCounted(c) == c

\* next_token, '\n' arm: self.current_line += 1.
NewLine(c) == [c EXCEPT !.current_line = @ + 1]

RECURSIVE NextToken(_)
\* A '/' arm that ends the pull after the comment instead of scanning on.
CommentEndsPull(skip) ==
  IF skip.ok THEN [item |-> EndOfSequence, cur |-> skip.cur]
  ELSE Raise(skip.cur, skip.err)

\* next_token, '/' arm: after consume_until('\n') the scan starts again.
Comment(skip) ==
  IF skip.ok THEN NextToken(skip.cur) ELSE Raise(skip.cur, skip.err)

\* next_token, '/' arm: f is the result of self.find('/').
Slash(lexeme_start, f) ==
  IF f.found THEN Comment(ConsumeUntil(f.cur, NL))
  ELSE Emit(f.cur, "Slash", <<>>, <<>>, lexeme_start)

\* next_token: the match on the character that advance() returned.
Dispatch(lexeme_start, a) ==
  IF ~a.ok THEN Raise(a.cur, a.err)
  ELSE CASE a.ch \in DOMAIN Punct ->
              Emit(a.cur, Punct[a.ch], <<>>, <<>>, lexeme_start)
         [] a.ch \in DOMAIN TwoChar ->
              Operator(a.ch, lexeme_start, Find(a.cur, "="))
         [] a.ch = "/" -> Slash(lexeme_start, Find(a.cur, "/"))
         [] a.ch \in Blank -> NextToken(a.cur)
         [] a.ch = NL -> NextToken(NewLine(a.cur))
         [] a.ch = QUOTE -> String(a.cur, lexeme_start)
         [] a.ch \in Digits -> Number(a.cur, lexeme_start)
         [] a.ch \in Letters -> Ident(a.cur, lexeme_start)
         [] OTHER ->
              Raise(a.cur, Error(a.cur, "UnexpectedCharacter", <<a.ch>>, NA))

\* ScannerIter::next_token
NextToken(c) == Dispatch(c.current_char, Advance(c))

\* try_next_token() that hands every error on.
TryNextTokenKeepsEof(r) == r

\* try_next_token: the match on the result of next_token; UnexpectedEof
\* becomes Ok(None).
TryNextTokenMatch(r) ==
  IF r.item.tag = "error" /\ r.item.kind = "UnexpectedEof"
  THEN [item |-> EndOfSequence, cur |-> r.cur]
  ELSE r

\* ScannerIter::try_next_token
TryNextToken(c) == TryNextTokenMatch(NextToken(c))

\* next() that emits Eof without recording that it did.
IteratorNextForgetsTerminated(c) ==
  IF IsEnd(c)
  THEN IF c.is_terminated
       THEN [item |-> EndOfSequence, cur |-> c]
       ELSE [item |-> Token("Eof", <<>>, <<>>, ByteLen(source), ByteLen(source)),
             cur |-> c]
  ELSE TryNextToken(c)

\* <ScannerIter as Iterator>::next.  The Eof span is source.len(), the
\* length of the source in bytes.
IteratorNext(c) ==
  IF IsEnd(c)
  THEN IF c.is_terminated
       THEN [item |-> EndOfSequence, cur |-> c]
       ELSE [item |-> Token("Eof", <<>>, <<>>, ByteLen(source), ByteLen(source)),
             cur |-> [c EXCEPT !.is_terminated = TRUE]]
  ELSE TryNextToken(c)

(***************************************************************************)
(* The state machine: a Scanner over one source, one cursor obtained from  *)
(* scan(), and the record of the pulls made on it so far.                  *)
(***************************************************************************)
\* All texts of length at most n over Alphabet.
Texts(n) == UNION {[1..k -> Alphabet] : k \in 0..n}

\* Sources longer than MaxLen: the examples of the specification and of
\* the scanner's test, and sources that put a token after a string.
ExampleSources ==
  {<<"@", " ", "1">>,
   <<QUOTE, "s", "t", "r", "i", "n", "g", QUOTE>>,
   <<QUOTE, "a", "b", "c">>,
   <<QUOTE, "a", "b", "c", QUOTE>>,
   <<QUOTE, EACUTE, "a", QUOTE, "+">>,
   <<QUOTE, EURO, QUOTE, " ", "=", "=">>,
   <<EURO, "@", NL, QUOTE, NL, "a">>,
   <<"/", "/", " ", "c", "o", "m", "m", "e", "n", "t", NL, "+">>,
   <<"1", ".", "5", ".", "3">>,
   <<"1", ".", "5">>,
   <<"1", "2", ".", "0", "5", "0", ".">>,
   <<"c", "l", "a", "s", "s", "i", "c">>,
   <<"C", "l", "a", "s", "s">>,
   <<"c", "l", "a", "s", "s", "1">>,
   <<"a", "_", "b">>,
   <<QUOTE, NL, "a", QUOTE, NL, "/", "/", NL, "@">>,
   <<"!", "=", "<", "=", ">", "=", "=", "=">>,
   <<"!", "<", ">", "=", "!", "1">>,
   <<"<", "<", NL, ">", EACUTE, "!">>,
   <<"o", "r", "+", "f", "o", "r", "1", " ", "i", "f">>}

\* Each reserved word as a source of its own.
KeywordSources == {k[1] : k \in Keywords}

Sources == Texts(MaxLen) \cup ExampleSources \cup KeywordSources

\* Pulls already made on the terminated cursor.
DonePulls == Cardinality({k \in 1..Len(pulls) : pulls[k].pre.is_terminated})

\* Scanner::new(source, None) and one call of scan(); the cursor of a
\* second call of scan() is never pulled.
Init ==
  /\ source \in Sources
  /\ location = <<>>
  /\ cursor = NewCursor
  /\ pulls = <<>>
  /\ cursor2 = NewCursor
  /\ pulls2 = <<>>

\* The caller receives the item of r; the cursor is left as r leaves it.
\* next() takes &mut self of one ScannerIter: no other cursor is touched.
Yield(r) ==
  /\ cursor' = r.cur
  /\ pulls' = Append(pulls, [item |-> r.item, pre |-> cursor, post |-> r.cur])
  /\ UNCHANGED <<cursor2, pulls2>>

\* One call of next() on the cursor.
Pull ==
  /\ DonePulls < MaxDonePulls
  /\ Yield(IteratorNext(cursor))
  /\ UNCHANGED <<source, location>>

Next == Pull

Spec == Init /\ [][Next]_vars

(***************************************************************************)
(* Two cursors over one Scanner, pulled in any order, with and without a   *)
(* location label.                                                         *)
(***************************************************************************)
\* The location labels: none (the REPL) and a file path.
Locations == {<<>>, <<"script.lox">>}

\* Sources with every pair of characters, and some with more tokens.
SourcesTwo ==
  Texts(MaxLenTwo)
    \cup {<<"@", " ", "1">>,
          <<QUOTE, EACUTE, QUOTE, NL, "@">>,
          <<"1", ".", "a", NL, QUOTE, "a">>}

\* Pulls already made on the second cursor after it terminated.
DonePulls2 == Cardinality({k \in 1..Len(pulls2) : pulls2[k].pre.is_terminated})

\* Scanner::new(source, location) and two calls of scan().
InitTwo ==
  /\ source \in SourcesTwo
  /\ location \in Locations
  /\ cursor = NewCursor
  /\ pulls = <<>>
  /\ cursor2 = NewCursor
  /\ pulls2 = <<>>

\* next() on the second cursor with the iterator position kept in one
\* place for all cursors of the Scanner.
Yield2SharesIter(r) ==
  /\ cursor2' = r.cur
  /\ pulls2' = Append(pulls2, [item |-> r.item, pre |-> cursor2, post |-> r.cur])
  /\ cursor' = [cursor EXCEPT !.iter = r.cur.iter]
  /\ UNCHANGED pulls

\* The caller of next() on the second cursor receives the item of r.
Yield2(r) ==
  /\ cursor2' = r.cur
  /\ pulls2' = Append(pulls2, [item |-> r.item, pre |-> cursor2, post |-> r.cur])
  /\ UNCHANGED <<cursor, pulls>>

\* One call of next() on the second cursor.
Pull2 ==
  /\ DonePulls2 < MaxDonePulls
  /\ Yield2(IteratorNext(cursor2))
  /\ UNCHANGED <<source, location>>

NextTwo == Pull \/ Pull2

SpecTwo == InitTwo /\ [][NextTwo]_vars

(***************************************************************************)
(* Vocabulary of the properties.                                           *)
(***************************************************************************)
\* Character count of the source.
N == Len(source)

IsToken(it) == it.tag = "token"
IsError(it, kind) == it.tag = "error" /\ it.kind = kind
IsEof(it) == it.tag = "token" /\ it.kind = "Eof"
IsNone(it) == it.tag = "none"

\* Number of newlines among the first j characters of the source.
NewlineCount(j) == Cardinality({m \in 1..j : source[m] = NL})

\* Index of the first newline at or after character index i, N if none.
LineEnd(i) ==
  IF \E m \in i..(N - 1) : source[m + 1] = NL
  THEN CHOOSE m \in i..(N - 1) :
         /\ source[m + 1] = NL
         /\ \A n \in i..(m - 1) : source[n + 1] # NL
  ELSE N

RECURSIVE SkipTrivia(_)
\* The character index at which the next lexeme starts when scanning
\* resumes at index i: whitespace, newlines and line comments are passed
\* over.  N when nothing but those is left.
SkipTrivia(i) ==
  IF i >= N THEN N
  ELSE IF source[i + 1] \in Blank \cup {NL} THEN SkipTrivia(i + 1)
  ELSE IF source[i + 1] = "/" /\ i + 1 < N /\ source[i + 2] = "/"
  THEN SkipTrivia(LineEnd(i + 2))
  ELSE i

\* The characters that start no token and are no trivia.
Unexpected(ch) ==
  ch \notin (DOMAIN Punct) \cup (DOMAIN TwoChar) \cup {"/"} \cup Blank
            \cup {NL, QUOTE} \cup Digits \cup Letters

\* The state of a cursor over the source that has consumed exactly the
\* first j characters (j > 0) and has not emitted Eof.
ResumeAt(j) ==
  [iter |-> j, current_line |-> NewlineCount(j), current_char |-> j,
   current_byte |-> ByteIdx(source, j - 1), is_terminated |-> FALSE]

RECURSIVE Drain(_, _)
\* The item of r, then the items of n - 1 more pulls.
DrainAfter(r, n) == <<r.item>> \o Drain(r.cur, n - 1)

\* The items of n successive pulls on a cursor in state c.
Drain(c, n) == IF n = 0 THEN <<>> ELSE DrainAfter(IteratorNext(c), n)

\* The items yielded so far, in order.
Items == [k \in 1..Len(pulls) |-> pulls[k].item]

(***************************************************************************)
(* C1.  Pulling the cursor until it first returns end-of-sequence yields   *)
(* exactly one Eof token, and that token is the last item yielded before   *)
(* the end-of-sequence.                                                    *)
(***************************************************************************)
C1_OneEofBeforeFirstEnd ==
  \A k \in 1..Len(pulls) :
    (IsNone(Items[k]) /\ \A j \in 1..(k - 1) : ~IsNone(Items[j]))
      => /\ k > 1
         /\ IsEof(Items[k - 1])
         /\ Cardinality({j \in 1..(k - 1) : IsEof(Items[j])}) = 1

(***************************************************************************)
(* C2.  A pull whose lexeme starts at index i on a character c that starts *)
(* no token yields UnexpectedCharacter(c) with column i, consumes exactly  *)
(* that character and leaves the cursor active; the pulls that follow      *)
(* yield what a scan resuming at i + 1 yields.  "@ 1" yields the error,    *)
(* Number(1.0) with span [2,2] and Eof.                                    *)
(***************************************************************************)
C2_UnexpectedAt(k) ==
  /\ ~IsEnd(pulls[k].pre)
  /\ SkipTrivia(pulls[k].pre.iter) < N
  /\ Unexpected(source[SkipTrivia(pulls[k].pre.iter) + 1])

\* C2: an unexpected character is reported at its index, consumed alone,
\* and the scan goes on from the next index.
C2_UnexpectedCharacterRecovery ==
  /\ \A k \in 1..Len(pulls) :
       C2_UnexpectedAt(k) =>
         LET i == SkipTrivia(pulls[k].pre.iter)
         IN /\ IsError(Items[k], "UnexpectedCharacter")
            /\ Items[k].text = <<source[i + 1]>>
            /\ Items[k].column = i
            /\ pulls[k].post.iter = i + 1
            /\ pulls[k].post.current_char = i + 1
            /\ ~pulls[k].post.is_terminated
            /\ SubSeq(Items, k + 1, Len(pulls))
                 = Drain(ResumeAt(i + 1), Len(pulls) - k)
  /\ (source = <<"@", " ", "1">> /\ Len(pulls) >= 3) =>
       /\ IsError(Items[1], "UnexpectedCharacter")
       /\ Items[1].text = <<"@">> /\ Items[1].column = 0
       /\ IsToken(Items[2]) /\ Items[2].kind = "Number"
       /\ Items[2].num = <<1, 0>> /\ Items[2].span = <<2, 2>>
       /\ IsEof(Items[3])

\* Two unexpected characters were reported in one pass, and a token after.
C2_Witness ==
  \E j, k, m \in 1..Len(pulls) :
    /\ j < k /\ k < m
    /\ C2_UnexpectedAt(j) /\ C2_UnexpectedAt(k)
    /\ IsError(Items[j], "UnexpectedCharacter")
    /\ IsError(Items[k], "UnexpectedCharacter")
    /\ IsToken(Items[m]) /\ ~IsEof(Items[m])

(***************************************************************************)
(* C3.  The Eof token has the span [N, N], N the number of characters of   *)
(* the source.                                                             *)
(***************************************************************************)
C3_EofSpanIsCharCount ==
  \A k \in 1..Len(pulls) : IsEof(Items[k]) => Items[k].span = <<N, N>>

(***************************************************************************)
(* C4.  No pull yields an InvalidInput error.                              *)
(***************************************************************************)
C4_NoInvalidInput ==
  \A k \in 1..Len(pulls) : ~IsError(Items[k], "InvalidInput")

(***************************************************************************)
(* C5.  is_terminated changes only from false to true and only in the pull *)
(* that emits Eof; Eof is emitted at most once; every pull after it        *)
(* returns end-of-sequence.                                                *)
(***************************************************************************)
C5_TerminatedOnceAtEof ==
  /\ \A k \in 1..Len(pulls) :
       /\ pulls[k].pre.is_terminated => pulls[k].post.is_terminated
       /\ (pulls[k].pre.is_terminated # pulls[k].post.is_terminated)
            <=> IsEof(Items[k])
       /\ \A j \in 1..(k - 1) : IsEof(Items[j]) => IsNone(Items[k])
  /\ Cardinality({k \in 1..Len(pulls) : IsEof(Items[k])}) <= 1
  /\ cursor.is_terminated <=> \E k \in 1..Len(pulls) : IsEof(Items[k])

\* Eof was emitted and two more pulls were made after it.
C5_Witness ==
  \E k \in 1..Len(pulls) :
    /\ IsEof(Items[k])
    /\ Len(pulls) >= k + 2
    /\ k > 1

(***************************************************************************)
(* C6.  No yielded item is an UnexpectedEof error: when next_token runs    *)
(* out of characters the pull returns end-of-sequence, and every other     *)
(* result of next_token is yielded unchanged.                              *)
(***************************************************************************)
\* Item it is what a pull yields when next_token returned r.
C6_Yields(it, r) ==
  /\ IsError(r.item, "UnexpectedEof") => IsNone(it)
  /\ ~IsError(r.item, "UnexpectedEof") => it = r.item

\* C6: UnexpectedEof is never yielded; it becomes end-of-sequence, and
\* every other result of next_token is yielded unchanged.
C6_UnexpectedEofNeverYielded ==
  \A k \in 1..Len(pulls) :
    /\ ~IsError(Items[k], "UnexpectedEof")
    /\ ~IsEnd(pulls[k].pre) => C6_Yields(Items[k], NextToken(pulls[k].pre))

\* A pull ran out of characters while it looked for a token, after an
\* error of another kind was yielded.
C6_Witness ==
  \E j, k \in 1..Len(pulls) :
    /\ j < k
    /\ Items[j].tag = "error"
    /\ ~IsEnd(pulls[k].pre)
    /\ IsError(NextToken(pulls[k].pre).item, "UnexpectedEof")
    /\ IsNone(Items[k])

(***************************************************************************)
(* C7.  A string literal opened at index s with no later double quote:     *)
(* the pull yields UnterminatedString with start = s, column = index of    *)
(* the last character of the source and line = number of newlines          *)
(* consumed; all input is consumed and the next pull yields Eof.           *)
(***************************************************************************)
C7_UnterminatedAt(k) ==
  /\ ~IsEnd(pulls[k].pre)
  /\ SkipTrivia(pulls[k].pre.iter) < N
  /\ source[SkipTrivia(pulls[k].pre.iter) + 1] = QUOTE
  /\ \A m \in (SkipTrivia(pulls[k].pre.iter) + 1)..(N - 1) : source[m + 1] # QUOTE

\* C7: an unterminated string yields UnterminatedString anchored at its
\* opening quote, consumes all input, and Eof follows directly.
C7_UnterminatedString ==
  \A k \in 1..Len(pulls) :
    C7_UnterminatedAt(k) =>
      /\ IsError(Items[k], "UnterminatedString")
      /\ Items[k].start = SkipTrivia(pulls[k].pre.iter)
      /\ Items[k].column = N - 1
      /\ Items[k].line = NewlineCount(N)
      /\ pulls[k].post.iter = N
      /\ k < Len(pulls) => IsEof(Items[k + 1])

\* An unterminated string with an embedded newline, opened after another
\* item was yielded, and followed by Eof.
C7_Witness ==
  \E k \in 2..Len(pulls) :
    /\ C7_UnterminatedAt(k)
    /\ NewlineCount(N) > NewlineCount(SkipTrivia(pulls[k].pre.iter))
    /\ k < Len(pulls)
    /\ IsEof(Items[k + 1])

(***************************************************************************)
(* C8.  A String token for a literal with its quotes at s and e has the    *)
(* text strictly between the quotes as value and the span [s, e], and the  *)
(* next pull starts at e + 1.  "string" in quotes yields String("string")  *)
(* with span [0,7], then Eof with span [8,8].                              *)
(***************************************************************************)
C8_StringToken ==
  /\ \A k \in 1..Len(pulls) :
       (IsToken(Items[k]) /\ Items[k].kind = "String") =>
         LET s == Items[k].span[1]
             e == Items[k].span[2]
         IN /\ s = SkipTrivia(pulls[k].pre.iter)
            /\ s < e /\ e < N
            /\ source[s + 1] = QUOTE
            /\ source[e + 1] = QUOTE
            /\ \A m \in (s + 1)..(e - 1) : source[m + 1] # QUOTE
            /\ Items[k].text = SubSeq(source, s + 2, e)
            /\ pulls[k].post.iter = e + 1
            /\ pulls[k].post.current_char = e + 1
  /\ (source = <<QUOTE, "s", "t", "r", "i", "n", "g", QUOTE>> /\ Len(pulls) >= 2) =>
       /\ Items[1] = Token("String", <<"s", "t", "r", "i", "n", "g">>, <<>>, 0, 7)
       /\ Items[2] = Token("Eof", <<>>, <<>>, 8, 8)

\* A String token with a non-empty value was yielded, and the item after it.
C8_Witness ==
  \E k \in 1..Len(pulls) :
    /\ IsToken(Items[k]) /\ Items[k].kind = "String"
    /\ Items[k].text # <<>>
    /\ k < Len(pulls)

(***************************************************************************)
(* C9.  Every token but Eof has a span [i, j] in character indices with    *)
(* 0 <= i <= j < N; characters i..j of the source are the token's lexeme,  *)
(* and the lexeme starts after the whitespace, newlines and comments that  *)
(* were skipped.                                                           *)
(***************************************************************************)
\* The text lex is the lexeme of token it.
C9_Spells(it, lex) ==
  LET n == Len(lex)
  IN CASE it.kind \in {Punct[c] : c \in DOMAIN Punct} ->
            n = 1 /\ lex[1] \in DOMAIN Punct /\ Punct[lex[1]] = it.kind
       [] it.kind \in {TwoChar[c][1] : c \in DOMAIN TwoChar} ->
            /\ n = 2 /\ lex[1] \in DOMAIN TwoChar
            /\ TwoChar[lex[1]][1] = it.kind /\ lex[2] = "="
       [] it.kind \in {TwoChar[c][2] : c \in DOMAIN TwoChar} ->
            n = 1 /\ lex[1] \in DOMAIN TwoChar /\ TwoChar[lex[1]][2] = it.kind
       [] it.kind = "Slash" -> lex = <<"/">>
       [] it.kind = "String" ->
            /\ n >= 2 /\ lex[1] = QUOTE /\ lex[n] = QUOTE
            /\ it.text = SubSeq(lex, 2, n - 1)
       [] it.kind = "Number" ->
            /\ lex[1] \in Digits /\ lex[n] \in Digits
            /\ \A m \in 1..n : lex[m] \in Digits \cup {"."}
            /\ Cardinality({m \in 1..n : lex[m] = "."}) <= 1
            /\ it.num = ParseF64(lex).num
       [] it.kind = "Identifier" ->
            /\ lex[1] \in Letters
            /\ \A m \in 1..n : lex[m] \in Letters \cup Digits
            /\ \A w \in Keywords : w[1] # lex
            /\ it.text = lex
       [] OTHER -> <<lex, it.kind>> \in Keywords

\* C9: the span of every token but Eof is the character range of its
\* lexeme, inside the source.
C9_SpansAreCharacterIndices ==
  \A k \in 1..Len(pulls) :
    (IsToken(Items[k]) /\ ~IsEof(Items[k])) =>
      LET i == Items[k].span[1]
          j == Items[k].span[2]
      IN /\ 0 <= i /\ i <= j /\ j < N
         /\ i = SkipTrivia(pulls[k].pre.iter)
         /\ C9_Spells(Items[k], SubSeq(source, i + 1, j + 1))

\* A token was yielded whose lexeme lies after a multi-byte character, so
\* that its character index and its byte offset differ.
C9_Witness ==
  \E k \in 1..Len(pulls) :
    /\ IsToken(Items[k]) /\ ~IsEof(Items[k])
    /\ ByteIdx(source, Items[k].span[1]) # Items[k].span[1]

(***************************************************************************)
(* C10.  Spans do not decrease in yield order: for consecutive tokens t1,  *)
(* t2 (errors between them ignored) start(t2) >= start(t1), and            *)
(* start(t2) > end(t1), or start(t2) >= end(t1) when t2 is Eof.            *)
(***************************************************************************)
C10_ConsecutiveTokens(j, k) ==
  /\ j < k
  /\ IsToken(Items[j]) /\ IsToken(Items[k])
  /\ \A m \in (j + 1)..(k - 1) : ~IsToken(Items[m])

\* C10: the spans of consecutive tokens do not decrease.
C10_SpansNonDecreasing ==
  \A j, k \in 1..Len(pulls) :
    C10_ConsecutiveTokens(j, k) =>
      /\ Items[k].span[1] >= Items[j].span[1]
      /\ IF IsEof(Items[k])
         THEN Items[k].span[1] >= Items[j].span[2]
         ELSE Items[k].span[1] > Items[j].span[2]

\* Two tokens with an error between them, then Eof.
C10_Witness ==
  \E j, k, m \in 1..Len(pulls) :
    /\ C10_ConsecutiveTokens(j, k) /\ C10_ConsecutiveTokens(k, m)
    /\ k > j + 1
    /\ IsEof(Items[m])

(***************************************************************************)
(* C11.  Two cursors of one Scanner are independent: under every           *)
(* interleaving each yields what it yields when pulled alone, so the two   *)
(* sequences agree; a pull on one cursor leaves the other cursor           *)
(* unchanged, and the Scanner is never modified.                           *)
(***************************************************************************)
\* The items the second cursor has yielded so far.
Items2 == [k \in 1..Len(pulls2) |-> pulls2[k].item]

C11_SameAsAlone ==
  /\ Items = Drain(NewCursor, Len(pulls))
  /\ Items2 = Drain(NewCursor, Len(pulls2))
  /\ \A k \in 1..Len(pulls) : k <= Len(pulls2) => Items[k] = Items2[k]

C11_Frame ==
  /\ source' = source
  /\ location' = location
  /\ pulls' # pulls => (cursor2' = cursor2 /\ pulls2' = pulls2)
  /\ pulls2' # pulls2 => (cursor' = cursor /\ pulls' = pulls)

\* C11: the cursors of two scan() calls are independent of each other.
C11_CursorsIndependent == [](C11_SameAsAlone) /\ [][C11_Frame]_vars

\* Both cursors were pulled, an error was yielded, and the cursors stand at
\* different positions of the source.
C11_Witness ==
  /\ Len(pulls) >= 2
  /\ Len(pulls2) >= 1
  /\ Len(pulls2) < Len(pulls)
  /\ cursor.iter # cursor2.iter
  /\ \E k \in 1..Len(pulls) : Items[k].tag = "error"

(***************************************************************************)
(* C12.  A lexeme that starts with "//" is a line comment: the characters  *)
(* up to the next newline (or the end of the input) are consumed without   *)
(* an item, the newline that ends it is counted once, and the same pull    *)
(* yields what a scan resuming at that newline yields: the next real       *)
(* token.  "// comment\n+" yields Plus with span [11,11], then Eof.  A '/' *)
(* that is not followed by '/' yields Slash of one character.              *)
(***************************************************************************)
RECURSIVE SkipBlank(_)
\* The index of the first character at or after i that is neither
\* whitespace nor a newline, N if there is none.
SkipBlank(i) ==
  IF i >= N THEN N
  ELSE IF source[i + 1] \in Blank \cup {NL} THEN SkipBlank(i + 1)
  ELSE i

\* Pull k meets a '/' as the first character of its lexeme.
C12_SlashAt(k) ==
  /\ SkipBlank(pulls[k].pre.iter) < N
  /\ source[SkipBlank(pulls[k].pre.iter) + 1] = "/"

\* Pull k meets "//" at the start of its lexeme.
C12_CommentAt(k) ==
  /\ C12_SlashAt(k)
  /\ SkipBlank(pulls[k].pre.iter) + 1 < N
  /\ source[SkipBlank(pulls[k].pre.iter) + 2] = "/"

\* Pull k skipped a comment that starts at p and ends before index e.
C12_CommentSkipped(k, p, e) ==
  /\ Items[k] = TryNextToken(ResumeAt(e)).item
  /\ pulls[k].post = TryNextToken(ResumeAt(e)).cur
  /\ ResumeAt(e).current_line = NewlineCount(p)
  /\ pulls[k].post.current_char >= e
  /\ IsToken(Items[k]) =>
       /\ Items[k].span[1] > e
       /\ Items[k].span[1] = SkipTrivia(e)
       /\ pulls[k].post.current_line >= NewlineCount(p) + 1
       /\ pulls[k].post.current_line = NewlineCount(pulls[k].post.current_char)
  /\ IsError(Items[k], "UnexpectedCharacter") =>
       /\ Items[k].column > e
       /\ Items[k].line >= NewlineCount(p) + 1
  /\ SkipTrivia(e) < N => ~IsNone(Items[k])
  /\ (IsToken(Items[k]) /\ Items[k].span = <<e + 1, e + 1>>) =>
       pulls[k].post.current_line = NewlineCount(p) + 1

\* C12: line comments are skipped inside one pull; a lone '/' is Slash.
C12_LineComments ==
  /\ \A k \in 1..Len(pulls) :
       C12_CommentAt(k) =>
         C12_CommentSkipped(k, SkipBlank(pulls[k].pre.iter),
                            LineEnd(SkipBlank(pulls[k].pre.iter) + 2))
  /\ \A k \in 1..Len(pulls) :
       (C12_SlashAt(k) /\ ~C12_CommentAt(k)) =>
         /\ IsToken(Items[k]) /\ Items[k].kind = "Slash"
         /\ Items[k].span = <<SkipBlank(pulls[k].pre.iter),
                              SkipBlank(pulls[k].pre.iter)>>
         /\ pulls[k].post.current_char = SkipBlank(pulls[k].pre.iter) + 1
  /\ (source = <<"/", "/", " ", "c", "o", "m", "m", "e", "n", "t", NL, "+">>
        /\ Len(pulls) >= 2) =>
       /\ IsToken(Items[1]) /\ Items[1].kind = "Plus"
       /\ Items[1].span = <<11, 11>>
       /\ pulls[1].post.current_line = 1
       /\ IsEof(Items[2])

\* A pull skipped a comment that is ended by a newline and yielded the
\* token after it.
C12_Witness ==
  \E k \in 1..Len(pulls) :
    /\ C12_CommentAt(k)
    /\ LineEnd(SkipBlank(pulls[k].pre.iter) + 2) < N
    /\ IsToken(Items[k]) /\ Items[k].kind = "Plus"

(***************************************************************************)
(* C13.  A lexeme that starts with a digit is the maximal run of digits,   *)
(* and a '.' with a second maximal run of digits only when a digit follows *)
(* the '.'; otherwise the '.' is left and is the next token.  "1." yields  *)
(* Number(1.0) [0,0], Dot [1,1], Eof; "1.5" yields Number [0,2]; "1.5.3"   *)
(* yields Number [0,2], Dot [3,3], Number [4,4].                           *)
(***************************************************************************)
RECURSIVE DigitRunEnd(_)
\* The index of the first character at or after i that is no digit.
DigitRunEnd(i) ==
  IF i < N /\ source[i + 1] \in Digits THEN DigitRunEnd(i + 1) ELSE i

\* A '.' at index w that has a digit after it.
FractionAt(w) == w + 1 < N /\ source[w + 1] = "." /\ source[w + 2] \in Digits

\* The index after the number literal whose first run of digits ends at w.
NumberEnd(w) == IF FractionAt(w) THEN DigitRunEnd(w + 2) ELSE w

\* Pull k meets a digit as the first character of its lexeme.
C13_NumberAt(k) ==
  /\ ~IsEnd(pulls[k].pre)
  /\ SkipTrivia(pulls[k].pre.iter) < N
  /\ source[SkipTrivia(pulls[k].pre.iter) + 1] \in Digits

\* Pull k yielded the number literal of the characters p .. e - 1.
C13_NumberFrom(k, p, e) ==
  /\ IsToken(Items[k]) /\ Items[k].kind = "Number"
  /\ Items[k].span = <<p, e - 1>>
  /\ Items[k].num = ParseF64(SubSeq(source, p + 1, e)).num
  /\ pulls[k].post.current_char = e
  /\ pulls[k].post.iter = e
  /\ (e < N /\ source[e + 1] = "." /\ k < Len(pulls)) =>
       /\ IsToken(Items[k + 1]) /\ Items[k + 1].kind = "Dot"
       /\ Items[k + 1].span = <<e, e>>

\* C13: number literals are scanned by maximal munch with a guarded
\* fraction.
C13_NumberMaximalMunch ==
  /\ \A k \in 1..Len(pulls) :
       C13_NumberAt(k) =>
         C13_NumberFrom(k, SkipTrivia(pulls[k].pre.iter),
                        NumberEnd(DigitRunEnd(SkipTrivia(pulls[k].pre.iter))))
  /\ (source = <<"1", ".">> /\ Len(pulls) >= 3) =>
       /\ Items[1].kind = "Number" /\ Items[1].num = <<1, 0>>
       /\ Items[1].span = <<0, 0>>
       /\ Items[2].kind = "Dot" /\ Items[2].span = <<1, 1>>
       /\ IsEof(Items[3])
  /\ (source = <<"1", ".", "5">> /\ Len(pulls) >= 2) =>
       /\ Items[1].kind = "Number" /\ Items[1].num = <<15, 1>>
       /\ Items[1].span = <<0, 2>>
       /\ IsEof(Items[2])
  /\ (source = <<"1", ".", "5", ".", "3">> /\ Len(pulls) >= 3) =>
       /\ Items[1].kind = "Number" /\ Items[1].span = <<0, 2>>
       /\ Items[2].kind = "Dot" /\ Items[2].span = <<3, 3>>
       /\ Items[3].kind = "Number" /\ Items[3].span = <<4, 4>>
       /\ Items[3].num = <<3, 0>>

\* A number with a fraction, a '.' left alone after it, and a number after
\* that were yielded.
C13_Witness ==
  \E k \in 1..Len(pulls) :
    /\ k + 2 <= Len(pulls)
    /\ C13_NumberAt(k)
    /\ FractionAt(DigitRunEnd(SkipTrivia(pulls[k].pre.iter)))
    /\ Items[k + 1].kind = "Dot"
    /\ Items[k + 2].kind = "Number"

(***************************************************************************)
(* C14.  A lexeme that starts with a letter is the maximal run of ASCII    *)
(* letters and digits; an underscore or any other character ends it.  The  *)
(* token is a keyword exactly when the whole run is one of the 16 reserved *)
(* words, in lower case; otherwise it is Identifier(run).  "class" yields  *)
(* Class; "classic", "Class" and "class1" each yield one Identifier.       *)
(***************************************************************************)
RECURSIVE AlnumRunEnd(_)
\* The index of the first character at or after i that is neither an ASCII
\* letter nor a digit.
AlnumRunEnd(i) ==
  IF i < N /\ source[i + 1] \in Digits \cup Letters
  THEN AlnumRunEnd(i + 1)
  ELSE i

\* The reserved words.
ReservedWords == {k[1] : k \in Keywords}

\* The token kinds of the reserved words.
KeywordKinds == {k[2] : k \in Keywords}

\* Pull k meets a letter as the first character of its lexeme.
C14_IdentAt(k) ==
  /\ ~IsEnd(pulls[k].pre)
  /\ SkipTrivia(pulls[k].pre.iter) < N
  /\ source[SkipTrivia(pulls[k].pre.iter) + 1] \in Letters

\* Pull k yielded the word of the characters p .. e - 1.
C14_WordFrom(k, p, e) ==
  /\ IsToken(Items[k])
  /\ Items[k].span = <<p, e - 1>>
  /\ pulls[k].post.current_char = e
  /\ Items[k].kind \in KeywordKinds <=> SubSeq(source, p + 1, e) \in ReservedWords
  /\ Items[k].kind \in KeywordKinds =>
       <<SubSeq(source, p + 1, e), Items[k].kind>> \in Keywords
  /\ Items[k].kind \notin KeywordKinds =>
       /\ Items[k].kind = "Identifier"
       /\ Items[k].text = SubSeq(source, p + 1, e)

\* The only item of a source that is one word.
C14_Single(word, kind, text) ==
  (source = word /\ Len(pulls) >= 2) =>
    /\ IsToken(Items[1]) /\ Items[1].kind = kind /\ Items[1].text = text
    /\ Items[1].span = <<0, Len(word) - 1>>
    /\ IsEof(Items[2])

\* C14: identifiers are maximal runs of letters and digits, keywords are
\* exact matches.
C14_IdentifiersAndKeywords ==
  /\ Cardinality(ReservedWords) = 16
  /\ Cardinality(KeywordKinds) = 16
  /\ \A k \in 1..Len(pulls) :
       C14_IdentAt(k) =>
         C14_WordFrom(k, SkipTrivia(pulls[k].pre.iter),
                      AlnumRunEnd(SkipTrivia(pulls[k].pre.iter)))
  /\ C14_Single(<<"c", "l", "a", "s", "s">>, "Class", <<>>)
  /\ C14_Single(<<"c", "l", "a", "s", "s", "i", "c">>, "Identifier",
                <<"c", "l", "a", "s", "s", "i", "c">>)
  /\ C14_Single(<<"C", "l", "a", "s", "s">>, "Identifier",
                <<"C", "l", "a", "s", "s">>)
  /\ C14_Single(<<"c", "l", "a", "s", "s", "1">>, "Identifier",
                <<"c", "l", "a", "s", "s", "1">>)
  /\ (source = <<"a", "_", "b">> /\ Len(pulls) >= 3) =>
       /\ Items[1].kind = "Identifier" /\ Items[1].span = <<0, 0>>
       /\ IsError(Items[2], "UnexpectedCharacter") /\ Items[2].text = <<"_">>
       /\ Items[3].kind = "Identifier" /\ Items[3].span = <<2, 2>>

\* An identifier that begins with a reserved word was yielded, and so was
\* a keyword.
C14_Witness ==
  \/ \E k \in 1..Len(pulls) :
       /\ C14_IdentAt(k)
       /\ Items[k].kind = "Identifier"
       /\ \E w \in ReservedWords :
            /\ Len(w) < Len(Items[k].text)
            /\ SubSeq(Items[k].text, 1, Len(w)) = w
  \/ /\ Len(pulls) >= 3
     /\ Items[1].kind = "Or" /\ Items[3].kind = "Identifier"
     /\ Items[3].text = <<"f", "o", "r", "1">>

(***************************************************************************)
(* C15.  The span derived from a yielded error is well formed: for         *)
(* UnterminatedString and InvalidNumber it is [start, column], start the   *)
(* index where the lexeme began and start <= column; for the other kinds   *)
(* it is [column, column].  The underline of the rendering, of length      *)
(* end - start + 1, is at least one character and never underflows.        *)
(***************************************************************************)
C15_Anchored(it) == it.kind \in {"InvalidNumber", "UnterminatedString"}

C15_ErrorSpanWellFormed ==
  \A k \in 1..Len(pulls) :
    Items[k].tag = "error" =>
      /\ C15_Anchored(Items[k]) =>
           /\ Span(Items[k]) = <<Items[k].start, Items[k].column>>
           /\ Items[k].start = SkipTrivia(pulls[k].pre.iter)
           /\ Items[k].start <= Items[k].column
      /\ ~C15_Anchored(Items[k]) =>
           Span(Items[k]) = <<Items[k].column, Items[k].column>>
      /\ 0 <= Span(Items[k])[1]
      /\ Span(Items[k])[1] <= Span(Items[k])[2]
      /\ Span(Items[k])[2] < N
      /\ UnderlineLength(Items[k]) >= 1

\* An error of a point span and, after it, an unterminated string whose
\* span is longer than one character were yielded.
C15_Witness ==
  \E j, k \in 1..Len(pulls) :
    /\ j < k
    /\ IsError(Items[j], "UnexpectedCharacter")
    /\ IsError(Items[k], "UnterminatedString")
    /\ Span(Items[k])[1] > 0
    /\ Span(Items[k])[1] < Span(Items[k])[2]

(***************************************************************************)
(* C16.  The diagnostic text of an error that carries a location label is  *)
(* "[{location} at {line}:{column}] {message}", and "[{line}:{column}]     *)
(* {message}" when it carries none; line and column are the fields of the  *)
(* error and message is the text of its kind.  The errors of a Scanner     *)
(* carry its location.                                                     *)
(***************************************************************************)
\* The errors that the two cursors have yielded.
YieldedErrors ==
  {Items[k] : k \in {j \in 1..Len(pulls) : Items[j].tag = "error"}}
    \cup {Items2[k] : k \in {j \in 1..Len(pulls2) : Items2[j].tag = "error"}}

\* "[{line}:{column}] {message}"
C16_Position(err) ==
  Decimal(err.line) \o ":" \o Decimal(err.column) \o "] " \o KindMessage(err)

\* C16 as it was stated: with a location label the text is
\* "[{location}:{line}:{column}] {message}", with colons only.
C16_DiagnosticTextColons ==
  \A err \in YieldedErrors :
    /\ err.location = location
    /\ err.location # <<>> =>
         Display(err) = "[" \o err.location[1] \o ":" \o C16_Position(err)
    /\ err.location = <<>> => Display(err) = "[" \o C16_Position(err)

\* C16: with a location label the text is
\* "[{location} at {line}:{column}] {message}", without one it is
\* "[{line}:{column}] {message}".
C16_DiagnosticText ==
  \A err \in YieldedErrors :
    /\ err.location = location
    /\ err.location # <<>> =>
         Display(err) = "[" \o err.location[1] \o " at " \o C16_Position(err)
    /\ err.location = <<>> => Display(err) = "[" \o C16_Position(err)
    /\ (err.location # <<>> /\ err.kind = "UnterminatedString"
          /\ err.line = 1 /\ err.column = 5) =>
         Display(err) = "[script.lox at 1:5] Unterminated string"
    /\ (err.location = <<>> /\ err.kind = "UnexpectedCharacter"
          /\ err.text = <<"@">> /\ err.line = 0 /\ err.column = 1) =>
         Display(err) = "[0:1] Unexpected character '@'"

\* An error that carries a location label was yielded on the second line.
C16_Witness ==
  \E err \in YieldedErrors :
    /\ err.location = <<"script.lox">>
    /\ err.kind = "UnterminatedString"
    /\ err.line = 1 /\ err.column = 5

(***************************************************************************)
(* C17.  The cursor is fused: a pull returns end-of-sequence only when the *)
(* cursor is terminated, Eof having been emitted, and after a pull has     *)
(* returned end-of-sequence no later pull yields an item; also when only   *)
(* whitespace, newlines or a line comment remain.                          *)
(***************************************************************************)
C17_Fused ==
  \A k \in 1..Len(pulls) :
    IsNone(Items[k]) =>
      /\ pulls[k].pre.is_terminated
      /\ \E j \in 1..(k - 1) : IsEof(Items[j])
      /\ \A j \in (k + 1)..Len(pulls) : IsNone(Items[j])

(***************************************************************************)
(* C18.  The lookahead of the two-character operators consumes only on a   *)
(* match.  For a lexeme that starts at i with '!', '=', '<' or '>': if the *)
(* next character is '=', the token is BangEqual / EqualEqual / LessEqual  *)
(* / GreaterEqual with span [i, i + 1] and two characters are consumed;    *)
(* otherwise it is Bang / Equal / Less / Greater with span [i, i] and the  *)
(* cursor is exactly as after one character, so that the character after   *)
(* it starts the next scan.                                                *)
(***************************************************************************)
\* The token kinds of an operator character with and without '='.
C18_WithEqual(ch) ==
  CASE ch = "!" -> "BangEqual" [] ch = "=" -> "EqualEqual"
    [] ch = "<" -> "LessEqual" [] ch = ">" -> "GreaterEqual"

C18_Alone(ch) ==
  CASE ch = "!" -> "Bang" [] ch = "=" -> "Equal"
    [] ch = "<" -> "Less" [] ch = ">" -> "Greater"

\* Pull k meets '!', '=', '<' or '>' as the first character of its lexeme.
C18_OperatorAt(k) ==
  /\ ~IsEnd(pulls[k].pre)
  /\ SkipTrivia(pulls[k].pre.iter) < N
  /\ source[SkipTrivia(pulls[k].pre.iter) + 1] \in {"!", "=", "<", ">"}

\* The operator at index i is followed by '='.
C18_Matches(i) == i + 1 < N /\ source[i + 2] = "="

\* Pull k yielded the operator that starts at index i.
C18_OperatorFrom(k, i) ==
  /\ IsToken(Items[k])
  /\ C18_Matches(i) =>
       /\ Items[k].kind = C18_WithEqual(source[i + 1])
       /\ Items[k].span = <<i, i + 1>>
       /\ pulls[k].post = ResumeAt(i + 2)
  /\ ~C18_Matches(i) =>
       /\ Items[k].kind = C18_Alone(source[i + 1])
       /\ Items[k].span = <<i, i>>
       /\ pulls[k].post = ResumeAt(i + 1)
       /\ pulls[k].post.current_byte = ByteIdx(source, i)
       /\ SubSeq(Items, k + 1, Len(pulls))
            = Drain(ResumeAt(i + 1), Len(pulls) - k)
       /\ (k < Len(pulls) /\ SkipTrivia(i + 1) < N
             /\ IsToken(Items[k + 1])) =>
            Items[k + 1].span[1] = SkipTrivia(i + 1)

\* C18: find() advances on a match only.
C18_FindAdvancesOnMatchOnly ==
  \A k \in 1..Len(pulls) :
    C18_OperatorAt(k) => C18_OperatorFrom(k, SkipTrivia(pulls[k].pre.iter))

\* An operator with '=' was yielded, and an operator without it whose
\* next character started the next token.
C18_Witness ==
  \E j, k \in 1..Len(pulls) :
    /\ C18_OperatorAt(j)
    /\ C18_Matches(SkipTrivia(pulls[j].pre.iter))
    /\ C18_OperatorAt(k)
    /\ ~C18_Matches(SkipTrivia(pulls[k].pre.iter))
    /\ k < Len(pulls)
    /\ IsToken(Items[k + 1])
    /\ Items[k + 1].span[1] = SkipTrivia(pulls[k].pre.iter) + 1
    /\ Items[k].kind \in {"Bang", "Less"}

(***************************************************************************)
(* C19.  After any sequence of pulls current_line is the number of         *)
(* newlines among the characters consumed so far, the first current_char   *)
(* characters of the source, whether a newline was consumed between        *)
(* tokens, inside a string or at the end of a comment; the line of every   *)
(* yielded error is that number at the point of detection.                 *)
(***************************************************************************)
C19_LineCounter ==
  /\ cursor.current_line = NewlineCount(cursor.current_char)
  /\ \A k \in 1..Len(pulls) :
       /\ pulls[k].post.current_line = NewlineCount(pulls[k].post.current_char)
       /\ Items[k].tag = "error" =>
            /\ Items[k].line = pulls[k].post.current_line
            /\ Items[k].line = NewlineCount(pulls[k].post.current_char)
            /\ Items[k].line = NewlineCount(Items[k].column + 1)

\* A newline inside a string, one between tokens and one after a comment
\* were consumed, and an error was yielded on the fourth line.
C19_Witness ==
  /\ source = <<QUOTE, NL, "a", QUOTE, NL, "/", "/", NL, "@">>
  /\ Len(pulls) >= 2
  /\ Items[1].kind = "String"
  /\ pulls[1].post.current_line = 1
  /\ IsError(Items[2], "UnexpectedCharacter")
  /\ Items[2].line = 3
  /\ cursor.current_line = 3

(***************************************************************************)
(* C20.  After any sequence of pulls current_char is the number of scalars *)
(* consumed from the source; it never decreases and never exceeds the      *)
(* character count; when it is positive, current_byte is the byte offset   *)
(* at which the scalar of index current_char - 1 starts.  The two fields   *)
(* change in advance only, together: a pull that consumes nothing, having  *)
(* only looked ahead, changes neither.                                     *)
(***************************************************************************)
\* The two offsets of cursor state c agree with the scalars consumed.
C20_Offsets(c) ==
  /\ c.current_char = c.iter
  /\ c.current_char <= N
  /\ c.current_char > 0 => c.current_byte = ByteIdx(source, c.current_char - 1)
  /\ c.current_char = 0 => c.current_byte = 0

C20_DualOffset ==
  /\ C20_Offsets(cursor)
  /\ \A k \in 1..Len(pulls) :
       /\ C20_Offsets(pulls[k].pre)
       /\ C20_Offsets(pulls[k].post)
       /\ pulls[k].post.current_char >= pulls[k].pre.current_char
       /\ pulls[k].post.current_byte >= pulls[k].pre.current_byte
       /\ pulls[k].post.current_char = pulls[k].pre.current_char =>
            pulls[k].post.current_byte = pulls[k].pre.current_byte
       /\ IsEnd(pulls[k].pre) =>
            /\ pulls[k].post.current_char = pulls[k].pre.current_char
            /\ pulls[k].post.current_byte = pulls[k].pre.current_byte
            /\ pulls[k].post.iter = pulls[k].pre.iter

\* Scalars of more than one byte were consumed, so that the byte offset
\* and the character index differ, and a pull at the end changed neither.
C20_Witness ==
  /\ cursor.current_char >= 2
  /\ cursor.current_byte > cursor.current_char
  /\ cursor.current_char = N
  /\ \E k \in 1..Len(pulls) : IsEnd(pulls[k].pre)

====
